---- MODULE Spec2Model ----
(***************************************************************************)
(* State-machine model of the "Perfect Shot" React component (function     *)
(* App): image intake, the crop queue, K-way generation, single-slot       *)
(* regeneration, reset and album download.                                 *)
(*                                                                         *)
(* One action is one browser task: a DOM event handler run to completion   *)
(* together with the microtasks it triggers, or the completion of one      *)
(* asynchronous operation (FileReader batch, generate request, album       *)
(* composition) together with its promise continuations.  React state is   *)
(* re-rendered between tasks, so a handler's closure holds the current     *)
(* state when the handler starts.  A handler is reachable only through the *)
(* element that carries it: its guard is the element's conditional         *)
(* rendering and `disabled` attribute.                                     *)
(***************************************************************************)
EXTENDS Integers, Sequences, FiniteSets, Bags, TLC

VARIABLES
    uploadedImages,     \* useState<string[]>: the subject PhotoSet
    inspirationImages,  \* useState<string[]>: the vibe PhotoSet
    userPrompt,         \* useState<string>
    generatedImages,    \* useState<GeneratedImage[]>: the slot array (may hold holes)
    isDownloading,      \* useState<boolean>
    appState,           \* 'idle' | 'photos-uploaded' | 'generating' | 'results-shown'
    generationCount,    \* useState<number>(4), driven by the range input
    cropQueue,          \* useState<{dataUrl, type}[]>
    crop,               \* useState<Crop>()           (0 = undefined)
    completedCrop,      \* useState<PixelCrop>()      (0 = undefined)
    pastedImages,       \* useState<string[]>
    isPasteModalOpen,   \* useState<boolean>
    reading,            \* FileReader batches whose Promise.all has not settled yet
    inflight,           \* generateVibeBasedImage calls that have not settled yet
    composing,          \* createAlbumPage calls that have not settled yet
    lastAlert,          \* text of the most recent window.alert ("none" before the first)
    lastDownload        \* the most recent file handed to the browser as a download

vars == <<uploadedImages, inspirationImages, userPrompt, generatedImages,
          isDownloading, appState, generationCount, cropQueue, crop,
          completedCrop, pastedImages, isPasteModalOpen, reading, inflight,
          composing, lastAlert, lastDownload>>

\* Everything the component keeps in React state.
reactState == <<uploadedImages, inspirationImages, userPrompt, generatedImages,
                isDownloading, appState, generationCount, cropQueue, crop,
                completedCrop, pastedImages, isPasteModalOpen>>

\* Everything outside React state: pending asynchronous work and side effects.
outside == <<reading, inflight, composing, lastAlert, lastDownload>>

----------------------------------------------------------------------------
(* Program constants *)

MAX_MAIN_IMAGES == 10
MAX_INSPIRATION_IMAGES == 5
DefaultGenerationCount == 4
MinGenerationCount == 1
MaxGenerationCount == 8

UnknownErrorMessage == "An unknown error occurred."
NoImagesAlert == "No images have been successfully generated to create an album."
AlbumErrorAlert == "Sorry, there was an error creating your album. Please try again."

(* Bounds of the model *)

MaxHeldIntake == 11 \* images the user has in the app at once (intake scenarios)
MaxQueued == 2      \* images between selection and crop (intake scenarios)
MaxCount == 2       \* largest value the user drags the count slider to
MaxAlbumCount == 2  \* largest count of a generation in the download scenarios
MaxInFlight == 2    \* generate requests in flight at once
MaxHeldOrder == 6   \* images the user has in the app at once (order scenarios)
MaxHeldDecode == 3  \* images the user has in the app at once (decoding scenarios)

----------------------------------------------------------------------------
(* Values *)

NullUrl == 0                       \* reader.result of a file that failed to decode
Undefined == 0                     \* an absent optional field / undefined state
NoMessage == "undefined"           \* GeneratedImage.error absent
NoStatus == "undefined"            \* generatedImages[i]?.status of a hole

Types == {"main", "inspiration"}

Min(a, b) == IF a < b THEN a ELSE b
Max(a, b) == IF a > b THEN a ELSE b

\* Array.prototype.slice(0, end): a negative end counts from the end of the array.
\* Faulty variant of Slice0: the last elements are kept, not the first.
Slice0FromEnd(arr, end) ==
    LET stop == IF end < 0 THEN Max(Len(arr) + end, 0) ELSE Min(end, Len(arr))
    IN  SubSeq(arr, Len(arr) - stop + 1, Len(arr))

Slice0(arr, end) ==
    LET stop == IF end < 0 THEN Max(Len(arr) + end, 0) ELSE Min(end, Len(arr))
    IN  SubSeq(arr, 1, stop)

\* Faulty variant of Slice1: the last element is dropped, not the first.
Slice1DropsLast(arr) == SubSeq(arr, 1, Len(arr) - 1)

\* arr.slice(1)
Slice1(arr) == SubSeq(arr, 2, Len(arr))

\* Faulty variant of FilterOut: the last element is dropped, whatever the index.
FilterOutLast(arr, index) == SubSeq(arr, 1, Len(arr) - 1)

\* prev.filter((_, i) => i !== index), with the code's 0-based index
FilterOut(arr, index) ==
    [k \in 1..(Len(arr) - (IF index \in 0..(Len(arr) - 1) THEN 1 ELSE 0)) |->
        IF k <= index THEN arr[k] ELSE arr[k + 1]]

\* A slot of the GeneratedImage array; Hole is an index never assigned.
Hole == [status |-> NoStatus, url |-> Undefined, error |-> NoMessage]
PendingSlot == [status |-> "pending", url |-> Undefined, error |-> NoMessage]
DoneSlot(u) == [status |-> "done", url |-> u, error |-> NoMessage]
ErrorSlot(m) == [status |-> "error", url |-> Undefined, error |-> m]

\* Faulty variant of SetAt: the result is pushed, so slots fill in completion order.
SetAtPush(arr, index, value) == Append(arr, value)

\* const newImages = [...prev]; newImages[index] = value; return newImages;
\* (0-based index; assigning past the end lengthens the array and leaves holes)
SetAt(arr, index, value) ==
    [k \in 1..Max(Len(arr), index + 1) |->
        IF k = index + 1 THEN value
        ELSE IF k <= Len(arr) THEN arr[k] ELSE Hole]

\* Faulty variant of FillPending: a fixed number of slots, whatever the count.
FillPendingFixed(n) == [k \in 1..3 |-> PendingSlot]

\* Array(n).fill({ status: 'pending' })
FillPending(n) == [k \in 1..n |-> PendingSlot]

\* generatedImages[index]?.status
StatusAt(arr, index) ==
    IF index + 1 \in 1..Len(arr) THEN arr[index + 1].status ELSE NoStatus

\* canvasPreview + canvas.toDataURL: the encoded raster of region c of the source
Cropped(dataUrl, c) == [src |-> dataUrl, region |-> c]

\* err instanceof Error ? err.message : "An unknown error occurred."
ErrorMessage(err) ==
    IF err.isError THEN err.message ELSE UnknownErrorMessage

----------------------------------------------------------------------------
(* The environment: what the user and the external services feed the       *)
(* component.  An environment is a record of finite input sets and caps.   *)

RECURSIVE SumLen(_)
SumLen(batches) ==
    IF batches = << >> THEN 0
    ELSE Len(Head(batches).files) + SumLen(Tail(batches))

\* Images currently somewhere in the intake pipeline or in a PhotoSet.
Held == Len(uploadedImages) + Len(inspirationImages) + Len(cropQueue)
        + Len(pastedImages) + SumLen(reading)

\* Images read or waiting for the crop modal or the paste disambiguation.
Queued == Len(cropQueue) + Len(pastedImages) + SumLen(reading)

\* Sequences over S of length 1..n
SeqsUpTo(S, n) == UNION {[1..k -> S] : k \in 1..n}

\* values thrown by the external generate call: Error objects and a non-Error
Err(isError, message) == [isError |-> isError, message |-> message]

\* a file handed to the browser: its name (n standing for the number in it)
\* and the labelled images its content is made of
File(name, n, content) == [name |-> name, arg |-> n, href |-> content]
NoFile == File("none", 0, << >>)

\* remove element k (1-based) of a sequence of pending asynchronous operations
RemoveAt(seq, k) == [j \in 1..(Len(seq) - 1) |-> IF j < k THEN seq[j] ELSE seq[j + 1]]

\* The subtree that renders: the upload/instructions/count panel and the
\* Generate button, or the result cards.
ShowsInputs == appState \in {"idle", "photos-uploaded"}
ShowsResults == appState \in {"generating", "results-shown"}

----------------------------------------------------------------------------
Init ==
    /\ uploadedImages = << >>
    /\ inspirationImages = << >>
    /\ userPrompt = ""
    /\ generatedImages = << >>
    /\ isDownloading = FALSE
    /\ appState = "idle"
    /\ generationCount = DefaultGenerationCount
    /\ cropQueue = << >>
    /\ crop = Undefined
    /\ completedCrop = Undefined
    /\ pastedImages = << >>
    /\ isPasteModalOpen = FALSE
    /\ reading = << >>
    /\ inflight = EmptyBag
    /\ composing = << >>
    /\ lastAlert = "none"
    /\ lastDownload = NoFile

----------------------------------------------------------------------------
(* Image intake *)

\* window 'paste' listener.  A paste while a TEXTAREA or INPUT has focus is
\* left alone; otherwise the clipboard's image files are read asynchronously.
\* Faulty variant of handlePaste: the focused element is not looked at.
handlePasteNoFocusCheck(files, focusInText) ==
    /\ reading' = Append(reading, [kind |-> "paste", type |-> "none", files |-> files])
    /\ UNCHANGED <<reactState, inflight, composing, lastAlert, lastDownload>>

handlePaste(files, focusInText) ==
    /\ IF focusInText
       THEN UNCHANGED reading
       ELSE reading' = Append(reading, [kind |-> "paste", type |-> "none", files |-> files])
    /\ UNCHANGED <<reactState, inflight, composing, lastAlert, lastDownload>>

\* Promise.all(filePromises) of a paste settles: every reader produced a data
\* URL (then) or some reader produced none (catch: logged, nothing else).
pasteRead(k) ==
    LET batch == reading[k]
        failed == \E j \in 1..Len(batch.files) : batch.files[j] = NullUrl
    IN  /\ batch.kind = "paste"
        /\ reading' = RemoveAt(reading, k)
        /\ IF failed
           THEN UNCHANGED <<pastedImages, isPasteModalOpen>>
           ELSE /\ pastedImages' = batch.files
                /\ isPasteModalOpen' = TRUE
        /\ UNCHANGED <<uploadedImages, inspirationImages, userPrompt, generatedImages,
                       isDownloading, appState, generationCount, cropQueue, crop,
                       completedCrop, inflight, composing, lastAlert, lastDownload>>

handleAddPastedImages(type) ==
    LET maxImages == IF type = "main" THEN MAX_MAIN_IMAGES ELSE MAX_INSPIRATION_IMAGES
        currentCount == IF type = "main" THEN Len(uploadedImages) ELSE Len(inspirationImages)
        availableSlots == maxImages - currentCount
        imagesToAdd == Slice0(pastedImages, availableSlots)
        newQueueItems == [j \in 1..Len(imagesToAdd) |->
                             [dataUrl |-> imagesToAdd[j], type |-> type]]
    IN  IF availableSlots <= 0
        THEN UNCHANGED <<reactState, outside>>
        ELSE /\ cropQueue' = cropQueue \o newQueueItems
             /\ isPasteModalOpen' = FALSE
             /\ pastedImages' = << >>
             /\ UNCHANGED <<uploadedImages, inspirationImages, userPrompt,
                            generatedImages, isDownloading, appState, generationCount,
                            crop, completedCrop, outside>>

\* Faulty variant of handleCancelPaste: the modal is closed, the images are kept.
handleCancelPasteKeepsImages ==
    /\ isPasteModalOpen' = FALSE
    /\ UNCHANGED <<uploadedImages, inspirationImages, userPrompt, generatedImages,
                   isDownloading, appState, generationCount, cropQueue, crop,
                   completedCrop, pastedImages, outside>>

handleCancelPaste ==
    /\ isPasteModalOpen' = FALSE
    /\ pastedImages' = << >>
    /\ UNCHANGED <<uploadedImages, inspirationImages, userPrompt, generatedImages,
                   isDownloading, appState, generationCount, cropQueue, crop,
                   completedCrop, outside>>

\* onChange of a file input: the selection is cut to the room left in the
\* category as counted when the handler runs, then read asynchronously.
handleImageUpload(selected, type) ==
    LET maxImages == IF type = "main" THEN MAX_MAIN_IMAGES ELSE MAX_INSPIRATION_IMAGES
        currentCount == IF type = "main" THEN Len(uploadedImages) ELSE Len(inspirationImages)
        files == Slice0(selected, maxImages - currentCount)
    IN  /\ reading' = Append(reading, [kind |-> "upload", type |-> type, files |-> files])
        /\ UNCHANGED <<reactState, inflight, composing, lastAlert, lastDownload>>

\* Faulty variant of uploadRead: the images are committed as they are read,
\* without passing through the crop modal.
uploadReadCommits(k) ==
    LET batch == reading[k]
    IN  /\ batch.kind = "upload"
        /\ reading' = RemoveAt(reading, k)
        /\ IF batch.type = "main"
           THEN /\ uploadedImages' = uploadedImages \o batch.files
                /\ UNCHANGED inspirationImages
           ELSE /\ inspirationImages' = inspirationImages \o batch.files
                /\ UNCHANGED uploadedImages
        /\ appState' = "photos-uploaded"
        /\ UNCHANGED <<userPrompt, generatedImages, isDownloading, generationCount,
                       cropQueue, crop, completedCrop, pastedImages, isPasteModalOpen,
                       inflight, composing, lastAlert, lastDownload>>

\* Faulty variant of uploadRead: the items are put in front of the queue.
uploadReadPrepends(k) ==
    LET batch == reading[k]
        items == [j \in 1..Len(batch.files) |->
                     [dataUrl |-> batch.files[j], type |-> batch.type]]
    IN  /\ batch.kind = "upload"
        /\ reading' = RemoveAt(reading, k)
        /\ cropQueue' = items \o cropQueue
        /\ UNCHANGED <<uploadedImages, inspirationImages, userPrompt, generatedImages,
                       isDownloading, appState, generationCount, crop, completedCrop,
                       pastedImages, isPasteModalOpen, inflight, composing, lastAlert,
                       lastDownload>>

\* Promise.all(newQueueItems) of an upload settles: onloadend resolves with
\* reader.result whatever it is, so every file of the batch yields an item.
uploadRead(k) ==
    LET batch == reading[k]
        items == [j \in 1..Len(batch.files) |->
                     [dataUrl |-> batch.files[j], type |-> batch.type]]
    IN  /\ batch.kind = "upload"
        /\ reading' = RemoveAt(reading, k)
        /\ cropQueue' = cropQueue \o items
        /\ UNCHANGED <<uploadedImages, inspirationImages, userPrompt, generatedImages,
                       isDownloading, appState, generationCount, crop, completedCrop,
                       pastedImages, isPasteModalOpen, inflight, composing, lastAlert,
                       lastDownload>>

\* Faulty variant of removeMainImage: removing the last photo shows the idle view.
removeMainImageRollsBack(index) ==
    /\ uploadedImages' = FilterOut(uploadedImages, index)
    /\ appState' = IF Len(FilterOut(uploadedImages, index)) = 0 THEN "idle" ELSE appState
    /\ UNCHANGED <<inspirationImages, userPrompt, generatedImages, isDownloading,
                   generationCount, cropQueue, crop, completedCrop,
                   pastedImages, isPasteModalOpen, outside>>

removeMainImage(index) ==
    /\ uploadedImages' = FilterOut(uploadedImages, index)
    /\ UNCHANGED <<inspirationImages, userPrompt, generatedImages, isDownloading,
                   appState, generationCount, cropQueue, crop, completedCrop,
                   pastedImages, isPasteModalOpen, outside>>

removeInspirationImage(index) ==
    /\ inspirationImages' = FilterOut(inspirationImages, index)
    /\ UNCHANGED <<uploadedImages, userPrompt, generatedImages, isDownloading,
                   appState, generationCount, cropQueue, crop, completedCrop,
                   pastedImages, isPasteModalOpen, outside>>

----------------------------------------------------------------------------
(* Crop pipeline *)

\* centerCrop(makeAspectCrop({unit: '%', width: 90}, 1, width, height), ...)
InitialCrop == 1

onImageLoad ==
    /\ crop' = InitialCrop
    /\ UNCHANGED <<uploadedImages, inspirationImages, userPrompt, generatedImages,
                   isDownloading, appState, generationCount, cropQueue, completedCrop,
                   pastedImages, isPasteModalOpen, outside>>

\* ReactCrop onChange={(_, percentCrop) => setCrop(percentCrop)}
onCropChange(c) ==
    /\ crop' = c
    /\ UNCHANGED <<uploadedImages, inspirationImages, userPrompt, generatedImages,
                   isDownloading, appState, generationCount, cropQueue, completedCrop,
                   pastedImages, isPasteModalOpen, outside>>

\* ReactCrop onComplete={(c) => setCompletedCrop(c)}
onCropComplete(c) ==
    /\ completedCrop' = c
    /\ UNCHANGED <<uploadedImages, inspirationImages, userPrompt, generatedImages,
                   isDownloading, appState, generationCount, cropQueue, crop,
                   pastedImages, isPasteModalOpen, outside>>

\* Faulty variant of handleCropConfirm: a missing crop selection is not refused.
handleCropConfirmNoSelectionCheck ==
    IF Len(cropQueue) = 0
    THEN UNCHANGED <<reactState, outside>>
    ELSE LET currentItem == cropQueue[1]
             croppedDataUrl == Cropped(currentItem.dataUrl, completedCrop)
         IN  /\ IF currentItem.type = "main"
                THEN /\ uploadedImages' = Append(uploadedImages, croppedDataUrl)
                     /\ UNCHANGED inspirationImages
                ELSE /\ inspirationImages' = Append(inspirationImages, croppedDataUrl)
                     /\ UNCHANGED uploadedImages
             /\ appState' = "photos-uploaded"
             /\ cropQueue' = Slice1(cropQueue)
             /\ crop' = Undefined
             /\ completedCrop' = Undefined
             /\ UNCHANGED <<userPrompt, generatedImages, isDownloading, generationCount,
                            pastedImages, isPasteModalOpen, outside>>

\* Faulty variant of handleCropConfirm: the cropped image goes to both PhotoSets.
handleCropConfirmBoth ==
    IF completedCrop = Undefined \/ Len(cropQueue) = 0
    THEN UNCHANGED <<reactState, outside>>
    ELSE LET currentItem == cropQueue[1]
             croppedDataUrl == Cropped(currentItem.dataUrl, completedCrop)
         IN  /\ uploadedImages' = Append(uploadedImages, croppedDataUrl)
             /\ inspirationImages' = Append(inspirationImages, croppedDataUrl)
             /\ appState' = "photos-uploaded"
             /\ cropQueue' = Slice1(cropQueue)
             /\ crop' = Undefined
             /\ completedCrop' = Undefined
             /\ UNCHANGED <<userPrompt, generatedImages, isDownloading, generationCount,
                            pastedImages, isPasteModalOpen, outside>>

handleCropConfirm ==
    IF completedCrop = Undefined \/ Len(cropQueue) = 0
    THEN UNCHANGED <<reactState, outside>>
    ELSE LET currentItem == cropQueue[1]
             croppedDataUrl == Cropped(currentItem.dataUrl, completedCrop)
         IN  /\ IF currentItem.type = "main"
                THEN /\ uploadedImages' = Append(uploadedImages, croppedDataUrl)
                     /\ UNCHANGED inspirationImages
                ELSE /\ inspirationImages' = Append(inspirationImages, croppedDataUrl)
                     /\ UNCHANGED uploadedImages
             /\ appState' = "photos-uploaded"
             /\ cropQueue' = Slice1(cropQueue)
             /\ crop' = Undefined
             /\ completedCrop' = Undefined
             /\ UNCHANGED <<userPrompt, generatedImages, isDownloading, generationCount,
                            pastedImages, isPasteModalOpen, outside>>

\* Faulty variant of handleCropCancel: the crop selection is kept for the next entry.
handleCropCancelKeepsSelection ==
    /\ cropQueue' = Slice1(cropQueue)
    /\ UNCHANGED <<uploadedImages, inspirationImages, userPrompt, generatedImages,
                   isDownloading, appState, generationCount, crop, completedCrop,
                   pastedImages, isPasteModalOpen, outside>>

handleCropCancel ==
    /\ cropQueue' = Slice1(cropQueue)
    /\ crop' = Undefined
    /\ completedCrop' = Undefined
    /\ UNCHANGED <<uploadedImages, inspirationImages, userPrompt, generatedImages,
                   isDownloading, appState, generationCount, pastedImages,
                   isPasteModalOpen, outside>>

----------------------------------------------------------------------------
(* Generation orchestrator *)

\* A handler invocation with calls of generateVibeBasedImage that have not
\* settled: `kind` is "gen" for handleGenerateClick (its calls are joined by
\* Promise.all) and "regen" for handleRegenerateSlot (one awaited call);
\* `count` is the number of calls it issued, `pending` the slot indexes of the
\* calls still unsettled, `latest` marks the generation started last.
Invocation(kind, count, pending, latest) ==
    [kind |-> kind, count |-> count, pending |-> pending, latest |-> latest]

RECURSIVE CallsIn(_, _)
CallsIn(bag, items) ==
    IF items = {} THEN 0
    ELSE LET x == CHOOSE y \in items : TRUE
         IN  bag[x] * Cardinality(x.pending) + CallsIn(bag, items \ {x})

\* number of external calls in flight
InFlightCount == CallsIn(inflight, DOMAIN inflight)

\* the invocations in flight once a newer generation has started
Superseded(bag) ==
    LET old(x) == [x EXCEPT !.latest = FALSE]
        copies(y) == {x \in DOMAIN bag : old(x) = y}
        RECURSIVE total(_)
        total(xs) == IF xs = {} THEN 0
                     ELSE LET x == CHOOSE z \in xs : TRUE
                          IN  bag[x] + total(xs \ {x})
    IN  [y \in {old(x) : x \in DOMAIN bag} |-> total(copies(y))]

\* Faulty variant of OutcomeSlot: a rejection is not caught, the slot stays pending.
OutcomeSlotUncaught(outcome) ==
    IF outcome.ok THEN DoneSlot(outcome.url) ELSE PendingSlot

\* .then(resultUrl => ({status: 'done', url})) / .catch(err => ({status: 'error', error}))
OutcomeSlot(outcome) ==
    IF outcome.ok THEN DoneSlot(outcome.url)
    ELSE ErrorSlot(ErrorMessage(outcome.err))

Resolved(u) == [ok |-> TRUE, url |-> u, err |-> Err(FALSE, "")]
Rejected(e) == [ok |-> FALSE, url |-> Undefined, err |-> e]

\* what one call of the external generate operation can settle with
Outcomes(urls, errors) == {Resolved(u) : u \in urls} \cup {Rejected(e) : e \in errors}

handleGenerateClick ==
    IF Len(uploadedImages) = 0 \/ Len(inspirationImages) = 0
    THEN UNCHANGED <<reactState, outside>>
    ELSE /\ appState' = "generating"
         /\ generatedImages' = FillPending(generationCount)
         /\ inflight' = Superseded(inflight) (+)
                SetToBag({Invocation("gen", generationCount,
                                     0..(generationCount - 1), TRUE)})
         /\ UNCHANGED <<uploadedImages, inspirationImages, userPrompt, isDownloading,
                        generationCount, cropQueue, crop, completedCrop, pastedImages,
                        isPasteModalOpen, reading, composing, lastAlert, lastDownload>>

\* the invocation inv once its call for slot index has settled
AfterCall(inv, index) == [inv EXCEPT !.pending = inv.pending \ {index}]

\* the calls in flight once the call of inv for slot index has settled
WithoutCall(bag, inv, index) ==
    (bag (-) SetToBag({inv})) (+)
    (IF AfterCall(inv, index).pending = {} THEN EmptyBag
     ELSE SetToBag({AfterCall(inv, index)}))

\* await Promise.all(generationPromises) is over once no call of the batch is left
BatchSettledBy(inv, index) == inv.kind = "gen" /\ inv.pending = {index}

\* Faulty variant of generationSettles: nothing follows the await, ViewState stays.
generationSettlesNoTransition(inv, index, outcome) ==
    /\ inv.kind = "gen"
    /\ generatedImages' = SetAt(generatedImages, index, OutcomeSlot(outcome))
    /\ inflight' = WithoutCall(inflight, inv, index)
    /\ UNCHANGED <<uploadedImages, inspirationImages, userPrompt, isDownloading,
                   appState, generationCount, cropQueue, crop, completedCrop,
                   pastedImages, isPasteModalOpen, reading, composing, lastAlert,
                   lastDownload>>

\* Faulty variant of generationSettles: the outcome of a call of a superseded
\* generation is dropped.
generationSettlesUnlessStale(inv, index, outcome) ==
    /\ inv.kind = "gen"
    /\ generatedImages' = IF inv.latest
                          THEN SetAt(generatedImages, index, OutcomeSlot(outcome))
                          ELSE generatedImages
    /\ inflight' = WithoutCall(inflight, inv, index)
    /\ IF BatchSettledBy(inv, index)
       THEN appState' = "results-shown"
       ELSE UNCHANGED appState
    /\ UNCHANGED <<uploadedImages, inspirationImages, userPrompt, isDownloading,
                   generationCount, cropQueue, crop, completedCrop, pastedImages,
                   isPasteModalOpen, reading, composing, lastAlert, lastDownload>>

\* One call of handleGenerateClick settles: its slot is written and, when it
\* is the last of its batch, the code after the await runs in the same task.
generationSettles(inv, index, outcome) ==
    /\ inv.kind = "gen"
    /\ generatedImages' = SetAt(generatedImages, index, OutcomeSlot(outcome))
    /\ inflight' = WithoutCall(inflight, inv, index)
    /\ IF BatchSettledBy(inv, index)
       THEN appState' = "results-shown"
       ELSE UNCHANGED appState
    /\ UNCHANGED <<uploadedImages, inspirationImages, userPrompt, isDownloading,
                   generationCount, cropQueue, crop, completedCrop, pastedImages,
                   isPasteModalOpen, reading, composing, lastAlert, lastDownload>>

\* Faulty variant of handleRegenerateSlot: the pending slot is not refused.
handleRegenerateSlotNoPendingCheck(index) ==
    IF Len(uploadedImages) = 0 \/ Len(inspirationImages) = 0
    THEN UNCHANGED <<reactState, outside>>
    ELSE /\ generatedImages' = SetAt(generatedImages, index, PendingSlot)
         /\ inflight' = inflight (+) SetToBag({Invocation("regen", 1, {index}, FALSE)})
         /\ UNCHANGED <<uploadedImages, inspirationImages, userPrompt, isDownloading,
                        appState, generationCount, cropQueue, crop, completedCrop,
                        pastedImages, isPasteModalOpen, reading, composing, lastAlert,
                        lastDownload>>

\* Faulty variant of handleRegenerateSlot: it shows the generating view like a generation.
handleRegenerateSlotSetsGenerating(index) ==
    IF \/ Len(uploadedImages) = 0 \/ Len(inspirationImages) = 0
       \/ StatusAt(generatedImages, index) = "pending"
    THEN UNCHANGED <<reactState, outside>>
    ELSE /\ generatedImages' = SetAt(generatedImages, index, PendingSlot)
         /\ appState' = "generating"
         /\ inflight' = inflight (+) SetToBag({Invocation("regen", 1, {index}, FALSE)})
         /\ UNCHANGED <<uploadedImages, inspirationImages, userPrompt, isDownloading,
                        generationCount, cropQueue, crop, completedCrop,
                        pastedImages, isPasteModalOpen, reading, composing, lastAlert,
                        lastDownload>>

handleRegenerateSlot(index) ==
    IF \/ Len(uploadedImages) = 0 \/ Len(inspirationImages) = 0
       \/ StatusAt(generatedImages, index) = "pending"
    THEN UNCHANGED <<reactState, outside>>
    ELSE /\ generatedImages' = SetAt(generatedImages, index, PendingSlot)
         /\ inflight' = inflight (+) SetToBag({Invocation("regen", 1, {index}, FALSE)})
         /\ UNCHANGED <<uploadedImages, inspirationImages, userPrompt, isDownloading,
                        appState, generationCount, cropQueue, crop, completedCrop,
                        pastedImages, isPasteModalOpen, reading, composing, lastAlert,
                        lastDownload>>

\* Faulty variant of regenerationSettles: there is no catch, a rejection
\* leaves the slot as it is.
regenerationSettlesIgnoresFailure(inv, index, outcome) ==
    /\ inv.kind = "regen"
    /\ generatedImages' = IF outcome.ok
                          THEN SetAt(generatedImages, index, OutcomeSlot(outcome))
                          ELSE generatedImages
    /\ inflight' = WithoutCall(inflight, inv, index)
    /\ UNCHANGED <<uploadedImages, inspirationImages, userPrompt, isDownloading,
                   appState, generationCount, cropQueue, crop, completedCrop,
                   pastedImages, isPasteModalOpen, reading, composing, lastAlert,
                   lastDownload>>

\* the awaited call of handleRegenerateSlot settles (try / catch branch)
regenerationSettles(inv, index, outcome) ==
    /\ inv.kind = "regen"
    /\ generatedImages' = SetAt(generatedImages, index, OutcomeSlot(outcome))
    /\ inflight' = WithoutCall(inflight, inv, index)
    /\ UNCHANGED <<uploadedImages, inspirationImages, userPrompt, isDownloading,
                   appState, generationCount, cropQueue, crop, completedCrop,
                   pastedImages, isPasteModalOpen, reading, composing, lastAlert,
                   lastDownload>>

\* Faulty variant of handleReset: the instructions are kept.
handleResetKeepsPrompt ==
    /\ uploadedImages' = << >>
    /\ inspirationImages' = << >>
    /\ generatedImages' = << >>
    /\ appState' = "idle"
    /\ UNCHANGED <<userPrompt, isDownloading, generationCount, cropQueue, crop,
                   completedCrop, pastedImages, isPasteModalOpen, outside>>

\* Faulty variant of handleReset: the crop queue is emptied as well.
handleResetClearsQueue ==
    /\ uploadedImages' = << >>
    /\ inspirationImages' = << >>
    /\ generatedImages' = << >>
    /\ userPrompt' = ""
    /\ appState' = "idle"
    /\ cropQueue' = << >>
    /\ UNCHANGED <<isDownloading, generationCount, crop, completedCrop,
                   pastedImages, isPasteModalOpen, outside>>

handleReset ==
    /\ uploadedImages' = << >>
    /\ inspirationImages' = << >>
    /\ generatedImages' = << >>
    /\ userPrompt' = ""
    /\ appState' = "idle"
    /\ UNCHANGED <<isDownloading, generationCount, cropQueue, crop, completedCrop,
                   pastedImages, isPasteModalOpen, outside>>

setUserPrompt(text) ==
    /\ userPrompt' = text
    /\ UNCHANGED <<uploadedImages, inspirationImages, generatedImages, isDownloading,
                   appState, generationCount, cropQueue, crop, completedCrop,
                   pastedImages, isPasteModalOpen, outside>>

setGenerationCount(n) ==
    /\ generationCount' = n
    /\ UNCHANGED <<uploadedImages, inspirationImages, userPrompt, generatedImages,
                   isDownloading, appState, cropQueue, crop, completedCrop,
                   pastedImages, isPasteModalOpen, outside>>

----------------------------------------------------------------------------
(* Downloads *)

\* the slot is done and carries a (truthy) url
HasResult(slot) == slot.status = "done" /\ slot.url # Undefined

\* Faulty variant of ImageData: every assigned slot gets an entry.
ImageDataAllSlots(arr) ==
    [n \in {k \in 1..Len(arr) : arr[k] # Hole} |-> arr[n].url]

\* imageData: one entry per done slot; the key n stands for the label "Result n"
ImageData(arr) ==
    [n \in {k \in 1..Len(arr) : HasResult(arr[k])} |-> arr[n].url]

handleDownloadIndividualImage(index) ==
    /\ IF index + 1 \in 1..Len(generatedImages) /\ HasResult(generatedImages[index + 1])
       THEN lastDownload' = File("perfect-shot-n.jpg", index + 1,
                                 [n \in {index + 1} |-> generatedImages[index + 1].url])
       ELSE UNCHANGED lastDownload
    /\ UNCHANGED <<reactState, reading, inflight, composing, lastAlert>>

\* Faulty variant of handleDownloadAlbum: the early return skips the finally block.
handleDownloadAlbumGuardLeft ==
    LET imageData == ImageData(generatedImages)
    IN  IF DOMAIN imageData = {}
        THEN /\ lastAlert' = NoImagesAlert
             /\ isDownloading' = TRUE
             /\ UNCHANGED <<uploadedImages, inspirationImages, userPrompt,
                            generatedImages, appState, generationCount, cropQueue,
                            crop, completedCrop, pastedImages, isPasteModalOpen,
                            reading, inflight, composing, lastDownload>>
        ELSE /\ isDownloading' = TRUE
             /\ composing' = Append(composing, imageData)
             /\ UNCHANGED <<uploadedImages, inspirationImages, userPrompt,
                            generatedImages, appState, generationCount, cropQueue,
                            crop, completedCrop, pastedImages, isPasteModalOpen,
                            reading, inflight, lastAlert, lastDownload>>

\* synchronous part of handleDownloadAlbum, up to the await or the early return
handleDownloadAlbum ==
    LET imageData == ImageData(generatedImages)
    IN  IF DOMAIN imageData = {}
        THEN /\ lastAlert' = NoImagesAlert
             /\ isDownloading' = FALSE
             /\ UNCHANGED <<uploadedImages, inspirationImages, userPrompt,
                            generatedImages, appState, generationCount, cropQueue,
                            crop, completedCrop, pastedImages, isPasteModalOpen,
                            reading, inflight, composing, lastDownload>>
        ELSE /\ isDownloading' = TRUE
             /\ composing' = Append(composing, imageData)
             /\ UNCHANGED <<uploadedImages, inspirationImages, userPrompt,
                            generatedImages, appState, generationCount, cropQueue,
                            crop, completedCrop, pastedImages, isPasteModalOpen,
                            reading, inflight, lastAlert, lastDownload>>

\* createAlbumPage resolved: the album is offered as a download, guard cleared
albumResolves(k) ==
    /\ lastDownload' = File("perfect-shot-album.jpg", 0, composing[k])
    /\ isDownloading' = FALSE
    /\ composing' = RemoveAt(composing, k)
    /\ UNCHANGED <<uploadedImages, inspirationImages, userPrompt, generatedImages,
                   appState, generationCount, cropQueue, crop, completedCrop,
                   pastedImages, isPasteModalOpen, reading, inflight, lastAlert>>

\* Faulty variant of albumRejects: the guard is cleared on the success path only.
albumRejectsGuardLeft(k) ==
    /\ lastAlert' = AlbumErrorAlert
    /\ composing' = RemoveAt(composing, k)
    /\ UNCHANGED <<uploadedImages, inspirationImages, userPrompt, generatedImages,
                   isDownloading, appState, generationCount, cropQueue, crop,
                   completedCrop, pastedImages, isPasteModalOpen, reading, inflight,
                   lastDownload>>

\* createAlbumPage rejected: catch alerts, finally clears the guard
albumRejects(k) ==
    /\ lastAlert' = AlbumErrorAlert
    /\ isDownloading' = FALSE
    /\ composing' = RemoveAt(composing, k)
    /\ UNCHANGED <<uploadedImages, inspirationImages, userPrompt, generatedImages,
                   appState, generationCount, cropQueue, crop, completedCrop,
                   pastedImages, isPasteModalOpen, reading, inflight, lastDownload>>

----------------------------------------------------------------------------
(* User and service events.  Each is a handler behind the guard of the     *)
(* element that carries it, with inputs drawn from the environment env.    *)

Paste(env) ==
    \E files \in SeqsUpTo(env.files, env.maxFiles) :
    \E focusInText \in (IF ShowsInputs THEN BOOLEAN ELSE {FALSE}) :
        /\ Len(reading) < env.maxReading
        /\ Held + Len(files) <= env.maxHeld
        /\ Queued + Len(files) <= env.maxQueued
        /\ handlePaste(files, focusInText)

PasteRead == \E k \in 1..Len(reading) : pasteRead(k)

PasteModalShown == isPasteModalOpen /\ Len(pastedImages) > 0

AddPastedImages ==
    \E type \in Types :
        /\ PasteModalShown
        /\ IF type = "main"
           THEN ~(Len(uploadedImages) >= MAX_MAIN_IMAGES)
           ELSE ~(Len(inspirationImages) >= MAX_INSPIRATION_IMAGES)
        /\ handleAddPastedImages(type)

CancelPaste == PasteModalShown /\ handleCancelPaste

ImageUpload(env) ==
    \E type \in Types :
    \E selected \in SeqsUpTo(env.files, env.maxFiles) :
        /\ ShowsInputs
        /\ IF type = "main"
           THEN ~(Len(uploadedImages) >= MAX_MAIN_IMAGES)
           ELSE ~(Len(inspirationImages) >= MAX_INSPIRATION_IMAGES)
        /\ Len(reading) < env.maxReading
        /\ Held + Len(selected) <= env.maxHeld
        /\ Queued + Len(selected) <= env.maxQueued
        /\ handleImageUpload(selected, type)

UploadRead == \E k \in 1..Len(reading) : uploadRead(k)

RemoveMainImage ==
    \E index \in 0..(Len(uploadedImages) - 1) : ShowsInputs /\ removeMainImage(index)

RemoveInspirationImage ==
    \E index \in 0..(Len(inspirationImages) - 1) :
        ShowsInputs /\ removeInspirationImage(index)

CropModalShown == Len(cropQueue) > 0

\* onLoad of the modal's <img src={cropQueue[0].dataUrl}>: an entry without
\* a data URL (a read that produced none) gives the image nothing to load
ImageLoad ==
    /\ CropModalShown
    /\ cropQueue[1].dataUrl # NullUrl
    /\ crop = Undefined
    /\ onImageLoad

CropChange(env) ==
    \E c \in env.crops : CropModalShown /\ c # crop /\ onCropChange(c)

CropComplete ==
    CropModalShown /\ crop # Undefined /\ completedCrop # crop /\ onCropComplete(crop)

CropConfirm == CropModalShown /\ handleCropConfirm

CropCancel == CropModalShown /\ handleCropCancel

isGenerateButtonDisabled ==
    \/ Len(uploadedImages) = 0
    \/ Len(inspirationImages) = 0
    \/ appState = "generating"

GenerateClick(env) ==
    /\ ShowsInputs
    /\ ~isGenerateButtonDisabled
    /\ InFlightCount + generationCount <= env.maxInFlight
    /\ handleGenerateClick

\* generatedImages.map(...) renders one card per assigned index (holes are skipped)
CardShown(index) ==
    /\ ShowsResults
    /\ index + 1 \in 1..Len(generatedImages)
    /\ generatedImages[index + 1] # Hole

RegenerateSlot(env) ==
    \E index \in 0..(Len(generatedImages) - 1) :
        /\ CardShown(index)
        /\ InFlightCount + 1 <= env.maxInFlight
        /\ handleRegenerateSlot(index)

GenerationSettles(env) ==
    \E inv \in DOMAIN inflight : \E index \in inv.pending :
    \E outcome \in Outcomes(env.urls, env.errors) :
        generationSettles(inv, index, outcome)

RegenerationSettles(env) ==
    \E inv \in DOMAIN inflight : \E index \in inv.pending :
    \E outcome \in Outcomes(env.urls, env.errors) :
        regenerationSettles(inv, index, outcome)

Reset == appState = "results-shown" /\ handleReset

SetUserPrompt(env) ==
    \E text \in env.prompts : ShowsInputs /\ text # userPrompt /\ setUserPrompt(text)

SetGenerationCount(env) ==
    \E n \in env.counts :
        ShowsInputs /\ n # generationCount /\ setGenerationCount(n)

DownloadIndividualImage ==
    \E index \in 0..(Len(generatedImages) - 1) :
        CardShown(index) /\ handleDownloadIndividualImage(index)

\* Faulty variant of DownloadAlbum: the button is not disabled while composing.
DownloadAlbumNotDisabled ==
    appState = "results-shown" /\ Len(composing) < 2 /\ handleDownloadAlbum

DownloadAlbum ==
    appState = "results-shown" /\ ~isDownloading /\ handleDownloadAlbum

AlbumResolves == \E k \in 1..Len(composing) : albumResolves(k)

AlbumRejects == \E k \in 1..Len(composing) : albumRejects(k)

\* clipboard intake and the paste disambiguation
PasteStep(env) ==
    \/ Paste(env)
    \/ PasteRead
    \/ AddPastedImages
    \/ CancelPaste

\* file-input intake, the crop modal, removal from the PhotoSets
PhotoStep(env) ==
    \/ ImageUpload(env)
    \/ UploadRead
    \/ RemoveMainImage
    \/ RemoveInspirationImage
    \/ ImageLoad
    \/ CropChange(env)
    \/ CropComplete
    \/ CropConfirm
    \/ CropCancel

\* generation, regeneration, reset and the controls of the input panel
GenerationStep(env) ==
    \/ GenerateClick(env)
    \/ GenerationSettles(env)
    \/ RegenerateSlot(env)
    \/ RegenerationSettles(env)
    \/ Reset
    \/ SetGenerationCount(env)

InstructionStep(env) == SetUserPrompt(env)

DownloadStep ==
    \/ DownloadIndividualImage
    \/ DownloadAlbum
    \/ AlbumResolves
    \/ AlbumRejects

----------------------------------------------------------------------------
(* Environments *)

\* Generation scenarios.  Three images are enough for a photo of each
\* category plus one more on its way through the crop modal; they enter one
\* at a time.  Every count up to MaxCount, at most MaxInFlight external calls
\* outstanding, one result image and one failure.
EnvGen ==
    [files |-> {1}, maxFiles |-> 1, maxHeld |-> 3, maxQueued |-> 1, maxReading |-> 1,
     crops |-> {InitialCrop}, prompts |-> {""},
     counts |-> MinGenerationCount..Min(MaxCount, MaxGenerationCount),
     maxInFlight |-> MaxInFlight,
     urls |-> {1},
     errors |-> {Err(TRUE, "quota")}]

Next == PhotoStep(EnvGen) \/ GenerationStep(EnvGen)

Spec == Init /\ [][Next]_vars

\* Failure scenarios: the external call rejects with an Error carrying a
\* message, an Error carrying none (new Error()), or a value that is no Error.
EnvErrors ==
    [EnvGen EXCEPT !.errors = {Err(TRUE, "quota"), Err(TRUE, ""), Err(FALSE, "")}]

NextErrors == PhotoStep(EnvErrors) \/ GenerationStep(EnvErrors)

SpecErrors == Init /\ [][NextErrors]_vars

\* Download scenarios: one photo per category, generations of MaxAlbumCount
\* images (the slider is dragged from its default to that count), at most
\* MaxAlbumCount external calls outstanding, instructions typed or left empty.
EnvAlbum ==
    [EnvGen EXCEPT !.maxHeld = 2,
                   !.prompts = {"", "blue hair"},
                   !.counts = {Min(MaxAlbumCount, MaxGenerationCount)},
                   !.maxInFlight = MaxAlbumCount]

NextAlbum ==
    \/ PhotoStep(EnvAlbum) \/ InstructionStep(EnvAlbum)
    \/ GenerationStep(EnvAlbum) \/ DownloadStep

SpecAlbum == Init /\ [][NextAlbum]_vars

\* Intake scenarios: files and pastes of up to two images, up to MaxQueued
\* images between selection and crop, up to MaxHeldIntake images in all.
EnvIntake ==
    [files |-> {1}, maxFiles |-> 2, maxHeld |-> MaxHeldIntake,
     maxQueued |-> MaxQueued, maxReading |-> 1,
     crops |-> {InitialCrop}, prompts |-> {""}, counts |-> {}, maxInFlight |-> 0,
     urls |-> {}, errors |-> {}]

NextIntake == PasteStep(EnvIntake) \/ PhotoStep(EnvIntake)

SpecIntake == Init /\ [][NextIntake]_vars

\* Order scenarios: two distinguishable images, so that the order of pasted
\* images, queue entries and photos can be told; up to MaxHeldOrder images.
EnvOrder == [EnvIntake EXCEPT !.files = {1, 2}, !.maxHeld = MaxHeldOrder]

NextOrder == PasteStep(EnvOrder) \/ PhotoStep(EnvOrder)

SpecOrder == Init /\ [][NextOrder]_vars

\* Decoding scenarios: a file is read into a data URL or the read yields
\* none (reader.result is null).
EnvDecode == [EnvIntake EXCEPT !.files = {NullUrl, 1}, !.maxHeld = MaxHeldDecode]

NextDecode == PasteStep(EnvDecode) \/ PhotoStep(EnvDecode)

SpecDecode == Init /\ [][NextDecode]_vars

----------------------------------------------------------------------------
(* Claims *)

\* C1: in every reachable state the subject PhotoSet holds at most
\* MAX_MAIN_IMAGES images and the vibe PhotoSet at most MAX_INSPIRATION_IMAGES,
\* whatever uploads, pastes, category choices, crop confirms, skips and
\* removals came before.
C1_PhotoSetsWithinMax ==
    /\ Len(uploadedImages) <= MAX_MAIN_IMAGES
    /\ Len(inspirationImages) <= MAX_INSPIRATION_IMAGES

\* the slot generatedImages[index] as the code reads it (0-based; absent = hole)
SlotAt(arr, index) == IF index + 1 \in 1..Len(arr) THEN arr[index + 1] ELSE Hole

\* every other slot reads the same before and after the step
OtherSlotsUnchanged(index) ==
    \A j \in 0..(Max(Len(generatedImages), Len(generatedImages')) - 1) :
        j # index => SlotAt(generatedImages', j) = SlotAt(generatedImages, j)

GenOutcomes == Outcomes(EnvGen.urls, EnvGen.errors)

Settled(slot) == slot.status \in {"done", "error"}

\* A step that issues or settles an external call changes the calls in
\* flight; the formulas below state it first so that every other step is
\* dismissed without evaluating a handler.
CallsChange == inflight' # inflight

\* C2: when the last request of a K-way generation settles (the step in which
\* that generation sets ViewState to results-shown), the slot array has
\* exactly K entries and every entry is done or error, none pending.
C2_BatchEndsWithKSettledSlots ==
    [][CallsChange => \A inv \in DOMAIN inflight : \A index \in inv.pending :
       \A outcome \in GenOutcomes :
          (generationSettles(inv, index, outcome) /\ BatchSettledBy(inv, index))
          => /\ Len(generatedImages') = inv.count
             /\ \A k \in 1..Len(generatedImages') : Settled(generatedImages'[k])]_vars

\* C3: a request of a K-way generation writes its outcome (done with the
\* result, error with the message) to the slot of its own index in the step
\* in which it resolves, whether or not siblings are pending, and leaves every
\* other slot as it was; so the slot statuses do not depend on the order of
\* resolution.
C3_OutcomeWrittenToOwnSlot ==
    [][CallsChange => \A inv \in DOMAIN inflight : \A index \in inv.pending :
       \A outcome \in GenOutcomes :
          generationSettles(inv, index, outcome)
          => /\ SlotAt(generatedImages', index) = OutcomeSlot(outcome)
             /\ OtherSlotsUnchanged(index)]_vars

\* C3 witness: slot 1 of a generation is done while slot 0, issued before it,
\* is still pending, and the generation is still in flight.
C3_Witness ==
    /\ appState = "generating"
    /\ Len(generatedImages) = 2
    /\ generatedImages[1].status = "pending"
    /\ generatedImages[2].status = "done"
    /\ \E inv \in DOMAIN inflight : inv.kind = "gen" /\ inv.pending = {0}

\* C4: when the request of an accepted regeneration settles, its slot is done
\* or error; it is never left pending by the settled request.
C4_RegenerationEndsSettled ==
    [][CallsChange => \A inv \in DOMAIN inflight : \A index \in inv.pending :
       \A outcome \in GenOutcomes :
          regenerationSettles(inv, index, outcome)
          => Settled(SlotAt(generatedImages', index))]_vars

\* C4 witness: a regeneration was accepted for a slot of a shown result and
\* its request is in flight, the slot pending.
C4_Witness ==
    /\ appState = "results-shown"
    /\ \E inv \in DOMAIN inflight :
          /\ inv.kind = "regen"
          /\ \A index \in inv.pending : StatusAt(generatedImages, index) = "pending"

\* C5: applying the outcome of a regeneration never changes the length of
\* the slot array, whatever happened since the regeneration was accepted.
C5_RegenerationKeepsLength ==
    [][CallsChange => \A inv \in DOMAIN inflight : \A index \in inv.pending :
       \A outcome \in GenOutcomes :
          regenerationSettles(inv, index, outcome)
          => Len(generatedImages') = Len(generatedImages)]_vars

\* the regenerate button of card index is used and the handler accepts
RegenerationAccepted(index) ==
    /\ CardShown(index)
    /\ Len(uploadedImages) # 0 /\ Len(inspirationImages) # 0
    /\ StatusAt(generatedImages, index) # "pending"
    /\ handleRegenerateSlot(index)

\* the regenerate button of card index is used and the handler refuses
RegenerationRefused(index) ==
    /\ CardShown(index)
    /\ \/ Len(uploadedImages) = 0 \/ Len(inspirationImages) = 0
       \/ StatusAt(generatedImages, index) = "pending"
    /\ handleRegenerateSlot(index)

\* C6: both steps of a regeneration of slot i leave ViewState and every slot
\* j # i unchanged; accepting it issues exactly one external call and
\* applying the outcome issues none.
C6_RegenerationFrame ==
    [][CallsChange =>
       /\ \A index \in 0..(Len(generatedImages) - 1) :
             RegenerationAccepted(index)
             => /\ appState' = appState
                /\ OtherSlotsUnchanged(index)
                /\ SlotAt(generatedImages', index) = PendingSlot
                /\ InFlightCount' = InFlightCount + 1
       /\ \A inv \in DOMAIN inflight : \A index \in inv.pending :
          \A outcome \in GenOutcomes :
             regenerationSettles(inv, index, outcome)
             => /\ appState' = appState
                /\ OtherSlotsUnchanged(index)
                /\ InFlightCount' = InFlightCount - 1]_vars

\* C6 witness: a regeneration in flight beside a generation in flight, with
\* another slot already settled.
C6_Witness ==
    /\ appState = "generating"
    /\ \E inv \in DOMAIN inflight : inv.kind = "regen" /\ inv.pending = {0}
    /\ \E inv \in DOMAIN inflight : inv.kind = "gen"
    /\ StatusAt(generatedImages, 0) = "pending"

\* C7: handleRegenerateSlot invoked while a PhotoSet is empty, or on a
\* pending slot, changes nothing and issues no request.
C7_RefusedRegenerationIsNoOp ==
    [][\A index \in 0..(Len(generatedImages) - 1) :
          RegenerationRefused(index) => UNCHANGED vars]_vars

\* C7 witness: results are shown with a settled slot while the subject
\* PhotoSet is empty: the regenerate button is there and the handler refuses.
C7_Witness ==
    /\ appState = "results-shown"
    /\ Len(uploadedImages) = 0
    /\ Len(inspirationImages) > 0
    /\ CardShown(0)
    /\ Settled(generatedImages[1])

\* C8: the step in which the last request of a generation settles sets
\* ViewState to results-shown, whether the requests succeeded or failed.
C8_SettledBatchShowsResults ==
    [][CallsChange => \A inv \in DOMAIN inflight : \A index \in inv.pending :
       \A outcome \in GenOutcomes :
          (generationSettles(inv, index, outcome) /\ BatchSettledBy(inv, index))
          => appState' = "results-shown"]_vars

\* C8 witness: results shown, nothing in flight, a generation of two ended
\* with one failure and one success.
C8_Witness ==
    /\ appState = "results-shown"
    /\ inflight = EmptyBag
    /\ Len(generatedImages) = 2
    /\ generatedImages[1].status = "error"
    /\ generatedImages[2].status = "done"

ErrOutcomes == Outcomes(EnvErrors.urls, EnvErrors.errors)

\* C9: every failure of the external call, in a generation or a regeneration,
\* puts its slot in status error with a non-empty message (the Error's
\* message, or the unknown-error text for a non-Error); no other call is
\* cancelled, and a generation whose last call fails still shows the results.
C9_FailuresCaptured ==
    [][CallsChange => \A inv \in DOMAIN inflight : \A index \in inv.pending :
       \A outcome \in ErrOutcomes :
          (~outcome.ok /\ (\/ generationSettles(inv, index, outcome)
                           \/ regenerationSettles(inv, index, outcome)))
          => /\ SlotAt(generatedImages', index).status = "error"
             /\ SlotAt(generatedImages', index).error # ""
             /\ SlotAt(generatedImages', index).error =
                   (IF outcome.err.isError THEN outcome.err.message
                    ELSE UnknownErrorMessage)
             /\ InFlightCount' = InFlightCount - 1
             /\ BatchSettledBy(inv, index) => appState' = "results-shown"]_vars

\* the album button is used while no slot is done with a result image
AlbumRefused ==
    /\ appState = "results-shown" /\ ~isDownloading
    /\ \A k \in 1..Len(generatedImages) : ~HasResult(generatedImages[k])
    /\ handleDownloadAlbum

\* C10: handleDownloadAlbum with no done slot calls no composer, downloads
\* nothing, alerts, leaves PhotoSets, slots, instructions and ViewState as
\* they were, and leaves isDownloading false.
C10_EmptyAlbumRefused ==
    [][AlbumRefused
       => /\ composing' = composing
          /\ lastDownload' = lastDownload
          /\ lastAlert' = NoImagesAlert
          /\ isDownloading' = FALSE
          /\ UNCHANGED <<uploadedImages, inspirationImages, generatedImages,
                         userPrompt, appState>>]_vars

\* C10 witness: the notice was raised while results with only failed slots
\* are shown and instructions are typed in; nothing is being composed and
\* nothing was downloaded.
C10_Witness ==
    /\ appState = "results-shown"
    /\ userPrompt # ""
    /\ Len(generatedImages) > 0
    /\ \A k \in 1..Len(generatedImages) : generatedImages[k].status = "error"
    /\ lastAlert = NoImagesAlert
    /\ ~isDownloading
    /\ composing = << >>
    /\ lastDownload = NoFile

\* the album button is used while some slot is done with a result image
AlbumAccepted ==
    /\ appState = "results-shown" /\ ~isDownloading
    /\ \E k \in 1..Len(generatedImages) : HasResult(generatedImages[k])
    /\ handleDownloadAlbum

\* the labeled-image mapping handed to createAlbumPage in this step
PassedToComposer == composing'[Len(composing')]

\* C11: when at least one slot is done, the mapping handleDownloadAlbum passes
\* to the composer has exactly one entry per done slot, keyed i+1 (the label
\* "Result i+1") for slot index i and holding that slot's result image, and
\* no entry for a pending or error slot.
C11_AlbumHoldsEveryDoneSlotOnce ==
    [][AlbumAccepted
       => /\ Len(composing') = Len(composing) + 1
          /\ DOMAIN PassedToComposer \subseteq 1..Len(generatedImages)
          /\ \A i \in 0..(Len(generatedImages) - 1) :
                IF SlotAt(generatedImages, i).status = "done"
                THEN /\ (i + 1) \in DOMAIN PassedToComposer
                     /\ PassedToComposer[i + 1] = SlotAt(generatedImages, i).url
                ELSE (i + 1) \notin DOMAIN PassedToComposer]_vars

\* C11 witness: an album is being composed from results of which slot 0
\* failed and slot 1 is done; the mapping holds the one entry "Result 2".
C11_Witness ==
    /\ appState = "results-shown"
    /\ Len(generatedImages) = 2
    /\ generatedImages[1].status = "error"
    /\ generatedImages[2].status = "done"
    /\ Len(composing) = 1
    /\ DOMAIN composing[1] = {2}

\* C12: at most one album composition is in flight at any time.
C12_OneCompositionAtATime == Len(composing) <= 1

\* C12 witness: a composition is in flight, the guard is set and the album
\* button, shown with the results, is disabled.
C12_Witness ==
    /\ appState = "results-shown"
    /\ isDownloading
    /\ Len(composing) = 1

\* a composition ends in this step: refused on empty input, resolved or rejected
CompositionEnds ==
    \/ AlbumRefused
    \/ \E k \in 1..Len(composing) : albumResolves(k) \/ albumRejects(k)

\* C13: every album composition that ends, on success, on empty input or on a
\* failure of the composer, leaves isDownloading false; and isDownloading is
\* true only while a composition is in flight.
C13_GuardClearedOnEveryPath ==
    [][/\ CompositionEnds => isDownloading' = FALSE
       /\ isDownloading' => Len(composing') > 0]_vars

\* C13 witness: the composer failed (its notice was raised), nothing is in
\* flight any more and the guard is clear.
C13_Witness ==
    /\ lastAlert = AlbumErrorAlert
    /\ composing = << >>
    /\ ~isDownloading
    /\ appState = "results-shown"

\* C14: immediately after handleReset both PhotoSets are empty, the slot
\* array is empty, the instructions are empty and ViewState is idle, whatever
\* the state before.
C14_ResetReturnsToInitialValues ==
    [][handleReset
       => /\ uploadedImages' = << >>
          /\ inspirationImages' = << >>
          /\ generatedImages' = << >>
          /\ userPrompt' = ""
          /\ appState' = "idle"]_vars

\* C14 witness: the idle view with nothing in it after an album was
\* downloaded, which only a reset of shown results leads to.
C14_Witness ==
    /\ appState = "idle"
    /\ uploadedImages = << >> /\ inspirationImages = << >>
    /\ generatedImages = << >>
    /\ userPrompt = ""
    /\ lastDownload # NoFile

\* C15: handleReset leaves the crop queue as it was, entries and order, and
\* the crop modal is shown after it exactly if it was shown before.
C15_ResetKeepsCropQueue ==
    [][handleReset
       => /\ cropQueue' = cropQueue
          /\ CropModalShown' <=> CropModalShown]_vars

\* C15 witness: the idle view with an image waiting in the crop modal while a
\* call issued for earlier results is still in flight: results were reset with
\* the queue non-empty.
C15_Witness ==
    /\ appState = "idle"
    /\ inflight # EmptyBag
    /\ Len(cropQueue) > 0
    /\ uploadedImages = << >> /\ inspirationImages = << >>

\* C16: Crop & Save on a queue head of category main leaves the vibe PhotoSet
\* unchanged, and on a head of category inspiration leaves the subject
\* PhotoSet unchanged.
C16_CropConfirmKeepsOtherCategory ==
    [][(CropModalShown /\ handleCropConfirm)
       => IF cropQueue[1].type = "main"
          THEN inspirationImages' = inspirationImages
          ELSE uploadedImages' = uploadedImages]_vars

\* C16 witness: crops of both categories were confirmed, and another subject
\* image is in the crop modal with its crop completed.
C16_Witness ==
    /\ Len(uploadedImages) = 1
    /\ Len(inspirationImages) = 2
    /\ Len(cropQueue) > 0 /\ cropQueue[1].type = "main"
    /\ completedCrop # Undefined

\* C17: a paste of images while the focus is in a TEXTAREA or INPUT changes
\* no state: nothing is read, queued or offered in the paste modal.
C17_PasteInTextFieldIgnored ==
    [][\A files \in SeqsUpTo(EnvIntake.files, EnvIntake.maxFiles) :
          handlePaste(files, TRUE) => UNCHANGED vars]_vars

\* C17 witness: the input panel, with its text field, is shown beside photos
\* already added; no read is pending and no modal is open.
C17_Witness ==
    /\ appState = "photos-uploaded"
    /\ Len(uploadedImages) > 0 /\ Len(inspirationImages) > 0
    /\ reading = << >>
    /\ cropQueue = << >>
    /\ pastedImages = << >> /\ ~isPasteModalOpen

\* C18: Cancel in the paste modal discards every pasted image and closes the
\* modal, and changes neither PhotoSet nor the crop queue.
C18_CancelPasteDiscards ==
    [][(PasteModalShown /\ handleCancelPaste)
       => /\ pastedImages' = << >>
          /\ ~isPasteModalOpen'
          /\ ~PasteModalShown'
          /\ UNCHANGED <<uploadedImages, inspirationImages, cropQueue>>]_vars

\* C18 witness: the paste modal offers two pasted images beside photos
\* already added.
C18_Witness ==
    /\ PasteModalShown
    /\ Len(pastedImages) = 2
    /\ Len(uploadedImages) > 0

\* the Generate button is used and the handler accepts
GenerationAccepted ==
    /\ ShowsInputs /\ ~isGenerateButtonDisabled
    /\ handleGenerateClick

\* C19: handleGenerateClick with both PhotoSets non-empty and count K sets
\* ViewState to generating, replaces the slot array by exactly K pending
\* slots and issues exactly K calls; K is always within 1..8.
C19_GenerateCreatesKPendingSlots ==
    [][/\ generationCount' \in MinGenerationCount..MaxGenerationCount
       /\ (CallsChange /\ GenerationAccepted)
          => /\ generationCount \in MinGenerationCount..MaxGenerationCount
             /\ appState' = "generating"
             /\ Len(generatedImages') = generationCount
             /\ \A k \in 1..Len(generatedImages') : generatedImages'[k] = PendingSlot
             /\ InFlightCount' = InFlightCount + generationCount]_vars

\* C19 witness: a generation of two was just started: two pending slots, two
\* calls in flight.
C19_Witness ==
    /\ appState = "generating"
    /\ generationCount = 2
    /\ generatedImages = <<PendingSlot, PendingSlot>>
    /\ InFlightCount = 2

\* C20: ViewState becomes generating only by handleGenerateClick run with
\* both PhotoSets non-empty, and results-shown only by the last call of such
\* a generation settling; handleGenerateClick with an empty PhotoSet changes
\* nothing; removing photos leaves ViewState as it is.
C20_ResultsComeFromGuardedGeneration ==
    [][/\ (appState' = "generating" /\ appState # "generating")
          => /\ Len(uploadedImages) > 0 /\ Len(inspirationImages) > 0
             /\ handleGenerateClick
       /\ (appState' = "results-shown" /\ appState # "results-shown")
          => \E inv \in DOMAIN inflight : \E index \in inv.pending :
                /\ BatchSettledBy(inv, index)
                /\ inflight' = WithoutCall(inflight, inv, index)
       /\ ((Len(uploadedImages) = 0 \/ Len(inspirationImages) = 0)
           /\ handleGenerateClick) => UNCHANGED vars
       /\ \A index \in 0..(Len(uploadedImages) - 1) :
             removeMainImage(index) => appState' = appState
       /\ \A index \in 0..(Len(inspirationImages) - 1) :
             removeInspirationImage(index) => appState' = appState]_vars

\* C20 witness: results are shown although both PhotoSets were emptied after
\* the generation was started.
C20_Witness ==
    /\ appState = "results-shown"
    /\ uploadedImages = << >> /\ inspirationImages = << >>
    /\ Len(generatedImages) > 0

\* a step of image intake: a file selection, a paste, a read that ends, or
\* the choice of a category for pasted images
IntakeStep ==
    \/ \E type \in Types :
       \E selected \in SeqsUpTo(EnvIntake.files, EnvIntake.maxFiles) :
          handleImageUpload(selected, type)
    \/ \E files \in SeqsUpTo(EnvIntake.files, EnvIntake.maxFiles) :
          handlePaste(files, FALSE)
    \/ \E k \in 1..Len(reading) : uploadRead(k) \/ pasteRead(k)
    \/ \E type \in Types : PasteModalShown /\ handleAddPastedImages(type)

\* Crop & Save is used with a completed crop on a non-empty queue
CropConfirmAccepted ==
    /\ CropModalShown /\ completedCrop # Undefined
    /\ handleCropConfirm

Decoded(files) == SelectSeq(files, LAMBDA f : f # NullUrl)

\* C22: a file whose read fails gives no crop-queue entry and no pasted
\* image, and the files of the same batch that were read are still accepted:
\* queued for cropping (file input) or offered in the paste modal (paste).
C22_FailedReadsDroppedOthersKept ==
    [][\A k \in 1..Len(reading) :
          /\ uploadRead(k)
             => cropQueue' = cropQueue \o
                   [j \in 1..Len(Decoded(reading[k].files)) |->
                       [dataUrl |-> Decoded(reading[k].files)[j],
                        type |-> reading[k].type]]
          /\ pasteRead(k)
             => IF Decoded(reading[k].files) = << >>
                THEN UNCHANGED <<pastedImages, isPasteModalOpen>>
                ELSE /\ pastedImages' = Decoded(reading[k].files)
                     /\ isPasteModalOpen']_vars

\* C23: while a call of the generation started last is in flight, ViewState
\* is not results-shown.
C23_NoResultsWhileLatestBatchUnsettled ==
    \A inv \in DOMAIN inflight :
        (inv.kind = "gen" /\ inv.latest) => appState # "results-shown"

\* C24: Crop & Save with no completed crop, or on an empty queue, changes
\* nothing: the head stays, no PhotoSet grows, ViewState is as it was.
C24_CropConfirmWithoutSelectionIsNoOp ==
    [][((completedCrop = Undefined \/ Len(cropQueue) = 0) /\ handleCropConfirm)
       => UNCHANGED vars]_vars

\* C24 witness: the crop modal shows an image whose initial crop is drawn but
\* no crop was completed yet; Crop & Save is there to be pressed.
C24_Witness ==
    /\ CropModalShown
    /\ crop # Undefined
    /\ completedCrop = Undefined

\* C25: an accepted crop confirm appends exactly one image, the crop of the
\* head entry, at the end of the PhotoSet of the head's category, sets
\* ViewState to photos-uploaded, removes exactly the head from the queue (the
\* rest keep their order) and clears crop and completedCrop.
C25_CropConfirmCommitsHead ==
    [][CropConfirmAccepted
       => LET head == cropQueue[1]
              image == Cropped(head.dataUrl, completedCrop)
          IN  /\ IF head.type = "main"
                 THEN /\ Len(uploadedImages') = Len(uploadedImages) + 1
                      /\ SubSeq(uploadedImages', 1, Len(uploadedImages)) = uploadedImages
                      /\ uploadedImages'[Len(uploadedImages')] = image
                 ELSE /\ Len(inspirationImages') = Len(inspirationImages) + 1
                      /\ SubSeq(inspirationImages', 1, Len(inspirationImages))
                            = inspirationImages
                      /\ inspirationImages'[Len(inspirationImages')] = image
              /\ appState' = "photos-uploaded"
              /\ Len(cropQueue') = Len(cropQueue) - 1
              /\ \A k \in 1..Len(cropQueue') : cropQueue'[k] = cropQueue[k + 1]
              /\ crop' = Undefined
              /\ completedCrop' = Undefined]_vars

\* C25 witness: two different images were confirmed into the subject
\* PhotoSet, the crop selection is cleared and another entry waits.
C25_Witness ==
    /\ appState = "photos-uploaded"
    /\ Len(uploadedImages) = 2
    /\ uploadedImages[1] # uploadedImages[2]
    /\ Len(cropQueue) > 0
    /\ crop = Undefined /\ completedCrop = Undefined

\* C26: Skip removes exactly the head of the crop queue and clears crop and
\* completedCrop, and changes neither PhotoSet, nor ViewState, nor the slots.
C26_CropSkipDropsHeadOnly ==
    [][(CropModalShown /\ handleCropCancel)
       => /\ Len(cropQueue') = Len(cropQueue) - 1
          /\ \A k \in 1..Len(cropQueue') : cropQueue'[k] = cropQueue[k + 1]
          /\ crop' = Undefined
          /\ completedCrop' = Undefined
          /\ UNCHANGED <<uploadedImages, inspirationImages, appState,
                         generatedImages>>]_vars

\* C26 witness: two entries are queued and the crop of the head is
\* completed; Skip is there to be pressed.
C26_Witness ==
    /\ Len(cropQueue) = 2
    /\ completedCrop # Undefined
    /\ Len(inspirationImages) > 0

\* C27: the crop queue changes only by intake appending at its tail and by
\* confirm or skip removing its head, so entries leave in the order they
\* entered and the head is the oldest entry left.
C27_CropQueueIsFifo ==
    [][cropQueue' # cropQueue
       => \/ /\ Len(cropQueue') > Len(cropQueue)
             /\ SubSeq(cropQueue', 1, Len(cropQueue)) = cropQueue
             /\ IntakeStep
          \/ /\ Len(cropQueue) > 0
             /\ cropQueue' = Tail(cropQueue)
             /\ handleCropConfirm \/ handleCropCancel]_vars

\* C27 witness: two different entries are queued behind each other beside a
\* photo confirmed earlier.
C27_Witness ==
    /\ Len(cropQueue) = 2
    /\ cropQueue[1] # cropQueue[2]
    /\ Len(uploadedImages) > 0

\* C28: choosing a category for n pasted images queues exactly
\* min(n, max(0, categoryMax - size of the category)) entries, all of that
\* category and in pasted order, and then clears the pasted images and
\* closes the modal; with the category full nothing is queued.
C28_PastedBatchCutToRoom ==
    [][\A type \in Types :
          (PasteModalShown /\ handleAddPastedImages(type))
          => LET categoryMax == IF type = "main" THEN MAX_MAIN_IMAGES
                                ELSE MAX_INSPIRATION_IMAGES
                 size == IF type = "main" THEN Len(uploadedImages)
                         ELSE Len(inspirationImages)
                 room == Max(0, categoryMax - size)
                 m == Min(Len(pastedImages), room)
             IN  /\ cropQueue' = cropQueue \o
                       [j \in 1..m |-> [dataUrl |-> pastedImages[j], type |-> type]]
                 /\ room > 0 => (pastedImages' = << >> /\ ~isPasteModalOpen')]_vars

\* C28 witness: two different images are pasted while the vibe PhotoSet has
\* room for one only.
C28_Witness ==
    /\ PasteModalShown
    /\ Len(pastedImages) = 2
    /\ pastedImages[1] # pastedImages[2]
    /\ Len(inspirationImages) = MAX_INSPIRATION_IMAGES - 1

RECURSIVE CallsForIn(_, _, _)
CallsForIn(bag, items, index) ==
    IF items = {} THEN 0
    ELSE LET x == CHOOSE y \in items : TRUE
         IN  (IF index \in x.pending THEN bag[x] ELSE 0)
             + CallsForIn(bag, items \ {x}, index)

\* number of external calls in flight whose outcome goes to slot index
CallsFor(index) == CallsForIn(inflight, DOMAIN inflight, index)

\* C29: when two or more calls for the same slot index are in flight, each
\* of them writes its outcome to the slot when it settles, in whatever order
\* they were issued; so the slot ends with the outcome that came last.
C29_LastResolvedWins ==
    [][CallsChange => \A inv \in DOMAIN inflight : \A index \in inv.pending :
       \A outcome \in GenOutcomes :
          (/\ CallsFor(index) >= 2
           /\ \/ generationSettles(inv, index, outcome)
              \/ regenerationSettles(inv, index, outcome))
          => SlotAt(generatedImages', index) = OutcomeSlot(outcome)]_vars

\* C29 witness: slot 0 already holds the outcome of one call while another
\* call for slot 0 is still in flight.
C29_Witness ==
    /\ CallsFor(0) >= 1
    /\ Len(generatedImages) > 0
    /\ Settled(generatedImages[1])
    /\ \E inv \in DOMAIN inflight : inv.kind = "gen" /\ ~inv.latest /\ 0 \in inv.pending

\* C30: removing the image at index i of a PhotoSet deletes exactly that
\* element and keeps the order of the others; the other PhotoSet, the crop
\* queue, the slots and ViewState are unchanged, also when the PhotoSet
\* becomes empty.
C30_RemovalDeletesExactlyOne ==
    [][/\ \A i \in 0..(Len(uploadedImages) - 1) :
             (ShowsInputs /\ removeMainImage(i))
             => /\ Len(uploadedImages') = Len(uploadedImages) - 1
                /\ \A k \in 1..Len(uploadedImages') :
                      uploadedImages'[k] = uploadedImages[IF k <= i THEN k ELSE k + 1]
                /\ UNCHANGED <<inspirationImages, cropQueue, generatedImages, appState>>
       /\ \A i \in 0..(Len(inspirationImages) - 1) :
             (ShowsInputs /\ removeInspirationImage(i))
             => /\ Len(inspirationImages') = Len(inspirationImages) - 1
                /\ \A k \in 1..Len(inspirationImages') :
                      inspirationImages'[k] =
                         inspirationImages[IF k <= i THEN k ELSE k + 1]
                /\ UNCHANGED <<uploadedImages, cropQueue, generatedImages, appState>>]_vars

\* C30 witness: every photo that was confirmed has been removed again and
\* the view is still photos-uploaded.
C30_Witness ==
    /\ appState = "photos-uploaded"
    /\ uploadedImages = << >> /\ inspirationImages = << >>
    /\ cropQueue = << >>

\* C31: a pending slot changes only to done or error, and a slot that is
\* done or error keeps its status and result, unless the step is a
\* regeneration of that slot, a new generation or a reset.
C31_SlotSettlesOncePerCycle ==
    [][generatedImages' # generatedImages
       => \A index \in 0..(Max(Len(generatedImages), Len(generatedImages')) - 1) :
             LET old == SlotAt(generatedImages, index)
                 new == SlotAt(generatedImages', index)
             IN  old # new
                 => \/ old.status = "pending" /\ Settled(new)
                    \/ RegenerationAccepted(index)
                    \/ GenerationAccepted
                    \/ handleReset]_vars

\* C32: ViewState leaves generating only for results-shown, and only in the
\* step in which the generation that set it has fully settled; and no
\* generation is started while one is in flight.
C32_GeneratingEndsOnlyInResults ==
    [][/\ (appState = "generating" /\ appState' # "generating")
          => /\ appState' = "results-shown"
             /\ \E inv \in DOMAIN inflight : \E index \in inv.pending :
                   /\ inv.latest
                   /\ BatchSettledBy(inv, index)
                   /\ inflight' = WithoutCall(inflight, inv, index)
       /\ (CallsChange /\ GenerationAccepted)
          => \A inv \in DOMAIN inflight : inv.kind # "gen"]_vars

\* C33: with the slot array empty and ViewState idle as handleReset left
\* them, the outcome of a call issued before the reset adds no entry to the
\* slot array and does not change ViewState.
C33_LateOutcomeAfterResetIgnored ==
    [][CallsChange => \A inv \in DOMAIN inflight : \A index \in inv.pending :
       \A outcome \in GenOutcomes :
          (/\ appState = "idle" /\ generatedImages = << >>
           /\ \/ generationSettles(inv, index, outcome)
              \/ regenerationSettles(inv, index, outcome))
          => /\ generatedImages' = << >>
             /\ appState' = "idle"]_vars

\* C34: in every reachable state every pending slot has at least one call
\* for its index in flight.
C34_PendingSlotHasCallInFlight ==
    \A k \in 1..Len(generatedImages) :
        generatedImages[k].status = "pending" => CallsFor(k - 1) >= 1

\* C34 witness: a slot is pending again after a regeneration was accepted
\* while results are shown, its sibling is settled and has no call in flight.
C34_Witness ==
    /\ appState = "results-shown"
    /\ Len(generatedImages) = 2
    /\ generatedImages[2].status = "pending" /\ CallsFor(1) = 1
    /\ Settled(generatedImages[1]) /\ CallsFor(0) = 0

====
